---- MODULE Spec2Model ----
(***************************************************************************)
(* Model of sushy_tools/emulator/resources/systems/libvirtbynamedriver.py: *)
(* the wrapped_identity decorator (identity_wrapper), the by-name          *)
(* LibvirtDriver.systems listing and the wrapped accessors that delegate   *)
(* to the base libvirt driver.                                             *)
(***************************************************************************)
EXTENDS Integers, Sequences, FiniteSets, TLC

VARIABLES
    domains,    \* the hypervisor's domains, in listAllDomains() order
    wrapState,  \* per function: what wrapped_identity(func) produced so far
    pc,         \* per caller: position inside identity_wrapper
    call        \* per caller: the frame of the call in progress

vars == <<domains, wrapState, pc, call>>

----------------------------------------------------------------------------
(* Bounds of the model *)

MaxDomains == 2     \* number of domains the hypervisor holds at most
MaxExtra == 1       \* positional arguments passed beyond the declared ones

----------------------------------------------------------------------------
(* Values *)

UuidPool == <<"u1", "u2", "u3", "u4">>
UUIDs == {UuidPool[i] : i \in 1..(IF MaxDomains < 4 THEN MaxDomains ELSE 4)}
Names == {"web", "db"}
\* identities a caller may pass; each is unknown to the hypervisors that hold
\* no domain with that UUID or name
Idents == UUIDs \cup Names
PowerArgs == {"On", "Bogus"}

AllCallers == {"c1", "c2"}
SeqCallers == {"c1"}

Min(a, b) == IF a < b THEN a ELSE b

Range(s) == {s[i] : i \in DOMAIN s}

Ret(v) == [kind |-> "return", val |-> v]
Exc(k, v) == [kind |-> k, val |-> v]

----------------------------------------------------------------------------
(* The functions that get decorated *)

\* the accessors of the by-name LibvirtDriver that the model exercises
Catalogue == {"uuid", "get_power_state", "set_power_state"}

\* functions handed to wrapped_identity besides the catalogue: a driver with
\* arbitrary behaviour (it may raise AliasAccessError on every invocation),
\* and a function that declares no 'identity' parameter
Stubs == {"adversary", "no_identity"}

Funcs == Catalogue \cup Stubs

\* every accessor the by-name LibvirtDriver declares under @wrapped_identity
FullCatalogue ==
    {"uuid", "name", "get_power_state", "set_power_state",
     "get_boot_device", "set_boot_device", "get_boot_mode", "set_boot_mode",
     "get_secure_boot", "set_secure_boot", "get_total_memory",
     "get_total_cpus", "get_bios", "get_versions", "set_bios", "set_versions",
     "reset_bios", "reset_versions", "get_nics", "get_processors",
     "get_boot_image", "set_boot_image", "get_simple_storage_collection",
     "get_http_boot_uri"}

AllFuncs == FullCatalogue \cup Stubs

\* getfullargspec(func).args
Params(f) ==
    CASE f = "set_power_state" -> <<"self", "identity", "state">>
      [] f = "set_boot_device" -> <<"self", "identity", "boot_source">>
      [] f = "set_boot_mode" -> <<"self", "identity", "boot_mode">>
      [] f = "set_secure_boot" -> <<"self", "identity", "secure">>
      [] f = "set_bios" -> <<"self", "identity", "attributes">>
      [] f = "set_versions" -> <<"self", "identity", "firmware_versions">>
      [] f = "get_boot_image" -> <<"self", "identity", "device">>
      [] f = "set_boot_image" ->
            <<"self", "identity", "device", "boot_image", "write_protected">>
      [] f = "no_identity" -> <<"self", "domain">>
      [] OTHER -> <<"self", "identity">>

\* the defaults of the declared parameters:
\* set_boot_image(self, identity, device, boot_image=None, write_protected=True)
Defaults(f) ==
    IF f = "set_boot_image"
    THEN [boot_image |-> "None", write_protected |-> "True"]
    ELSE <<>>

\* a mapping of BIOS attributes, passed as one value
BiosArgs == {"BootMode=Uefi"}

Attrs(v) ==
    CASE v = "BootMode=Uefi" -> [BootMode |-> "Uefi"]
      [] OTHER -> <<>>

DefaultBios == [BootMode |-> "Legacy", ProcTurbo |-> "Enabled"]

\* values a caller may pass for a parameter
ValsOf(k) ==
    CASE k = "self" -> {"drv"}
      [] k = "identity" -> Idents
      [] k = "state" -> PowerArgs
      [] k = "boot_source" -> {"Pxe"}
      [] k = "boot_mode" -> {"UEFI"}
      [] k = "secure" -> {"True"}
      [] k = "attributes" -> BiosArgs
      [] k = "firmware_versions" -> {"BiosVersion=2"}
      [] k = "device" -> {"Cd"}
      [] k = "boot_image" -> {"img"}
      [] k = "write_protected" -> {"False"}
      [] k = "domain" -> {"web"}
      [] OTHER -> {"zz"}

AllVals == {"drv", "zz", "extra"} \cup Idents \cup PowerArgs

\* positional arguments of a method call: self, then a prefix of the declared
\* parameters, then up to MaxExtra surplus values
ArgSeqs(f) ==
    UNION {{s \in [1..n -> AllVals] :
                \A i \in 1..n :
                    s[i] \in (IF i <= Len(Params(f)) THEN ValsOf(Params(f)[i])
                              ELSE {"extra"})} :
           n \in 1..(Len(Params(f)) + MaxExtra)}

\* keyword arguments of a call: any subset of the declared parameters
KwargSets(f) ==
    UNION {{m \in [S -> AllVals] : \A k \in S : m[k] \in ValsOf(k)} :
           S \in SUBSET (Range(Params(f)) \ {"self"})}

----------------------------------------------------------------------------
(* Python call binding *)

IndexOf(seq, k) == CHOOSE i \in DOMAIN seq : seq[i] = k

\* dict(zip(arguments, args)): pairs up to the shorter of the two
ZipDict(arguments, args) ==
    [k \in {arguments[i] : i \in 1..Min(Len(arguments), Len(args))} |->
        args[IndexOf(arguments, k)]]

\* kwargs.update(other)
DictUpdate(kwargs, other) ==
    [k \in (DOMAIN kwargs) \cup (DOMAIN other) |->
        IF k \in DOMAIN other THEN other[k] ELSE kwargs[k]]

\* the redirects (identity passed, payload raised) of the calls of the other
\* callers that are over, their outcome delivered
Resolved(c) ==
    {<<call[d].invs[1].identity, call[d].outs[1].val>> :
        d \in {e \in AllCallers \ {c} :
                  /\ pc[e] = "done"
                  /\ Len(call[e].outs) = 2
                  /\ call[e].outs[1].kind = "AliasAccessError"}}

\* variant: the wrapper remembers the aliases it has resolved and passes the
\* remembered UUID in place of the alias
NormalizeRemembering(f, args, kwargs) ==
    LET kw == DictUpdate(kwargs, ZipDict(Params(f), args))
        known == IF "identity" \in DOMAIN kw
                 THEN {r \in Resolved("") : r[1] = kw.identity}
                 ELSE {}
    IN  IF known = {} THEN kw
        ELSE DictUpdate(kw, [k \in {"identity"} |->
                                (CHOOSE r \in known : TRUE)[2]])

\* kwargs.update(dict(zip(arguments, args)))
Normalize(f, args, kwargs) == DictUpdate(kwargs, ZipDict(Params(f), args))

\* func(**kw): every declared parameter without a default must be given,
\* nothing undeclared may be
BindKw(f, kw) ==
    IF /\ (Range(Params(f)) \ DOMAIN Defaults(f)) \subseteq DOMAIN kw
       /\ DOMAIN kw \subseteq Range(Params(f))
    THEN Ret("bound")
    ELSE Exc("TypeError", "arguments")

\* the parameters as the body of func sees them: defaults where nothing was
\* passed
Bound(f, kw) == DictUpdate(Defaults(f), kw)

\* str(err) of an AliasAccessError: the message it was raised with
StrOfErr(err) == err.val

\* variants of the except clause's assignment: one that leaves the keyed set
\* as it was, one that rebuilds it from the identity alone
RetryKwargsKeep(kw, err) == kw
RetryKwargsOnly(kw, err) == [k \in {"identity"} |-> StrOfErr(err)]

\* kwargs['identity'] = str(err)
RetryKwargs(kw, err) == DictUpdate(kw, [k \in {"identity"} |-> StrOfErr(err)])

----------------------------------------------------------------------------
(* The base libvirt driver behind super().<accessor>(identity, ...) *)

First(S) == CHOOSE i \in S : \A j \in S : i <= j

ByUUID(store, id) == {i \in DOMAIN store : store[i].uuid = id}
ByName(store, id) == {i \in DOMAIN store : store[i].name = id}

\* the parameters of the base driver's accessor of that name, after self
BaseParams(op) ==
    CASE op = "set_power_state" -> <<"identity", "state">>
      [] op = "set_boot_device" -> <<"identity", "boot_source">>
      [] op = "set_boot_mode" -> <<"identity", "boot_mode">>
      [] op = "set_secure_boot" -> <<"identity", "secure">>
      [] op = "set_bios" -> <<"identity", "attributes">>
      [] op = "set_versions" -> <<"identity", "versions">>
      [] op = "get_boot_image" -> <<"identity", "device">>
      [] op = "set_boot_image" ->
            <<"identity", "device", "boot_image", "write_protected">>
      [] OTHER -> <<"identity">>

\* the base driver binding the positional arguments of a call
BaseBind(op, posargs) == ZipDict(BaseParams(op), posargs)

\* accessors that change something of the domain. Of what they change, the
\* state keeps the power state and the BIOS attributes.
WriteOps ==
    {"set_power_state", "set_boot_device", "set_boot_mode", "set_secure_boot",
     "set_bios", "set_versions", "reset_bios", "reset_versions",
     "set_boot_image"}

\* the accessor proper, once the domain is found by its UUID
Accessor(f, kw, store, i) ==
    CASE f = "uuid" -> [out |-> Ret(store[i].uuid), store |-> store]
      [] f = "name" -> [out |-> Ret(store[i].name), store |-> store]
      [] f = "get_power_state" -> [out |-> Ret(store[i].power), store |-> store]
      [] f = "set_power_state" ->
            IF kw.state = "On"
            THEN [out |-> Ret("None"), store |-> [store EXCEPT ![i].power = "On"]]
            ELSE [out |-> Exc("FishyError", kw.state), store |-> store]
      [] f = "get_bios" -> [out |-> Ret(store[i].bios), store |-> store]
      [] f = "set_bios" ->
            [out |-> Ret("None"),
             store |-> [store EXCEPT
                          ![i].bios = DictUpdate(@, Attrs(kw.attributes))]]
      [] f = "reset_bios" ->
            [out |-> Ret("None"),
             store |-> [store EXCEPT ![i].bios = DefaultBios]]
      [] f \in WriteOps -> [out |-> Ret("None"), store |-> store]
      [] OTHER -> [out |-> Ret(f), store |-> store]

\* a UUID of a domain is served; a name of a domain raises AliasAccessError
\* carrying that domain's UUID; anything else is NotFound. The HTTP boot URI
\* is answered without looking at the identity.
BaseDriver(f, kw, store) ==
    IF f = "get_http_boot_uri"
    THEN [out |-> Ret("uri"), store |-> store]
    ELSE IF ByUUID(store, kw.identity) # {}
    THEN Accessor(f, kw, store, First(ByUUID(store, kw.identity)))
    ELSE IF ByName(store, kw.identity) # {}
    THEN [out |-> Exc("AliasAccessError",
                      store[First(ByName(store, kw.identity))].uuid),
          store |-> store]
    ELSE [out |-> Exc("NotFound", kw.identity), store |-> store]

\* what a driver with arbitrary behaviour may answer to one invocation
AdvOutcomes ==
    {Ret("ok"), Exc("AliasAccessError", "u1"), Exc("AliasAccessError", "db"),
     Exc("NotFound", "db"), Exc("FishyError", "Bogus")}

AdvChoices(f) == IF f = "adversary" THEN AdvOutcomes ELSE {Ret("ok")}

\* variant: set_bios written as a copy of set_versions, the call left as it was
DelegationBiosAsVersions(f, b) ==
    [op |-> IF f = "set_bios" THEN "set_versions" ELSE f,
     args |-> [i \in 1..(Len(Params(f)) - 1) |-> b[Params(f)[i + 1]]]]

\* variant: set_boot_image passes its last two parameters the other way round
DelegationSwapped(f, b) ==
    [op |-> f,
     args |-> IF f = "set_boot_image"
              THEN <<b.identity, b.device, b.write_protected, b.boot_image>>
              ELSE [i \in 1..(Len(Params(f)) - 1) |-> b[Params(f)[i + 1]]]]

\* the body of every accessor: return super().<same name>(<its parameters
\* after self, in the declared order>)
Delegation(f, b) ==
    [op |-> f,
     args |-> [i \in 1..(Len(Params(f)) - 1) |-> b[Params(f)[i + 1]]]]

\* func called with keywords only: bind the keywords, then run the body
Invoke(f, kw, store, adv) ==
    IF BindKw(f, kw).kind # "return"
    THEN [out |-> BindKw(f, kw), store |-> store]
    ELSE CASE f \in FullCatalogue ->
                LET d == Delegation(f, Bound(f, kw))
                IN  BaseDriver(d.op, BaseBind(d.op, d.args), store)
           [] f = "adversary" -> [out |-> adv, store |-> store]
           [] OTHER -> [out |-> Ret("ok"), store |-> store]

----------------------------------------------------------------------------
(* State *)

NoOutcome == Exc("none", "")

NoCall == [f |-> "", args |-> <<>>, kwargs |-> <<>>, kw |-> <<>>,
           invs |-> <<>>, outs |-> <<>>, result |-> NoOutcome, pre |-> <<>>,
           names |-> <<>>, earlier |-> {}]

\* the hypervisor states: up to MaxDomains domains, each with its own UUID;
\* names need not be distinct
Stores ==
    UNION {{s \in [1..n -> [uuid : UUIDs, name : Names, power : {"Off"},
                             bios : {DefaultBios}]] :
                \A i \in 1..n : s[i].uuid = UuidPool[i]} :
           n \in 0..(IF MaxDomains < 4 THEN MaxDomains ELSE 4)}

\* the functions already decorated when the model starts
Decorated == FullCatalogue \cup {"adversary"}

Init ==
    /\ domains \in Stores
    /\ wrapState = [f \in AllFuncs |-> IF f \in Decorated THEN "wrapper" ELSE "none"]
    /\ pc = [c \in AllCallers |-> "idle"]
    /\ call = [c \in AllCallers |-> NoCall]

----------------------------------------------------------------------------
(* wrapped_identity(func) *)

\* variant: the decorator checks the declared parameters itself
wrapped_identity_checked(f) ==
    IF "identity" \in Range(Params(f)) THEN "wrapper" ELSE "ValueError"

\* the decorator defines identity_wrapper and returns it
wrapped_identity(f) == "wrapper"

Wrap(f) ==
    /\ wrapState[f] = "none"
    /\ wrapState' = [wrapState EXCEPT ![f] = wrapped_identity(f)]
    /\ UNCHANGED <<domains, pc, call>>

----------------------------------------------------------------------------
(* identity_wrapper: the wrapper the decorator returns *)

\* variant: the wrapper goes ahead without looking at the declared parameters
HasIdentityUnchecked(arguments) == TRUE

\* 'identity' in arguments
HasIdentity(arguments) == "identity" \in Range(arguments)

\* variants of the except clause: none at all, and one that catches the
\* base class of the driver's errors
RedirectsNever(out) == FALSE
RedirectsAnyFishy(out) ==
    out.kind \in {"AliasAccessError", "NotFound", "FishyError"}

\* except AliasAccessError: does the outcome of the first invocation lead to
\* the second one?
Redirects(out) == out.kind = "AliasAccessError"

\* variant: the wrapper calls func without returning what it returned
DeliverNone(out) == IF out.kind = "return" THEN Ret("None") ELSE out

\* return func(...): the outcome of that invocation is the wrapper's outcome
Deliver(out) == out

\* the wrapper up to and including the first invocation, and the except
\* clause's assignment when that invocation raised AliasAccessError
FirstFrame(f, args, kwargs, store, adv) ==
    IF ~HasIdentity(Params(f))
    THEN [pc |-> "done", store |-> store,
          frame |-> [f |-> f, args |-> args, kwargs |-> kwargs, kw |-> kwargs,
                     invs |-> <<>>, outs |-> <<>>,
                     result |-> Exc("ValueError", "identity"), pre |-> store,
                     names |-> <<>>, earlier |-> {}]]
    ELSE LET kw == Normalize(f, args, kwargs)
             r == Invoke(f, kw, store, adv)
         IN  IF Redirects(r.out)
             THEN [pc |-> "retry", store |-> r.store,
                   frame |-> [f |-> f, args |-> args, kwargs |-> kwargs,
                              kw |-> RetryKwargs(kw, r.out),
                              invs |-> <<kw>>, outs |-> <<r.out>>,
                              result |-> NoOutcome, pre |-> store,
                     names |-> <<>>, earlier |-> {}]]
             ELSE [pc |-> "done", store |-> r.store,
                   frame |-> [f |-> f, args |-> args, kwargs |-> kwargs,
                              kw |-> kw,
                              invs |-> <<kw>>, outs |-> <<r.out>>,
                              result |-> Deliver(r.out), pre |-> store,
                     names |-> <<>>, earlier |-> {}]]

\* variant: the except clause retries for as long as the signal is raised
SecondFrameLoop(frame, store, adv) ==
    LET r == Invoke(frame.f, frame.kw, store, adv)
    IN  IF Redirects(r.out)
        THEN [pc |-> "retry", store |-> r.store,
              frame |-> [frame EXCEPT !.invs = Append(@, frame.kw),
                                      !.outs = Append(@, r.out),
                                      !.kw = RetryKwargs(frame.kw, r.out)]]
        ELSE [pc |-> "done", store |-> r.store,
              frame |-> [frame EXCEPT !.invs = Append(@, frame.kw),
                                      !.outs = Append(@, r.out),
                                      !.result = Deliver(r.out)]]

\* variant: a failure of the second invocation is swallowed
SecondFrameSwallow(frame, store, adv) ==
    LET r == Invoke(frame.f, frame.kw, store, adv)
    IN  [pc |-> "done", store |-> r.store,
         frame |-> [frame EXCEPT !.invs = Append(@, frame.kw),
                                 !.outs = Append(@, r.out),
                                 !.result = IF r.out.kind = "return"
                                            THEN r.out ELSE Ret("None")]]

\* variant: the keyed set lives in one place shared by all the calls in
\* progress, so the retry may pick up the set another call left there
SecondFrameShared(frame, store, adv) ==
    LET others == {d \in AllCallers : pc[d] = "retry" /\ call[d] # frame}
        kw == IF others = {} THEN frame.kw
              ELSE call[CHOOSE d \in others : TRUE].kw
        r == Invoke(frame.f, kw, store, adv)
    IN  [pc |-> "done", store |-> r.store,
         frame |-> [frame EXCEPT !.invs = Append(@, kw),
                                 !.outs = Append(@, r.out),
                                 !.result = Deliver(r.out)]]

\* the second invocation, inside the except clause; its outcome is the call's
SecondFrame(frame, store, adv) ==
    LET r == Invoke(frame.f, frame.kw, store, adv)
    IN  [pc |-> "done", store |-> r.store,
         frame |-> [frame EXCEPT !.invs = Append(@, frame.kw),
                                 !.outs = Append(@, r.out),
                                 !.result = Deliver(r.out)]]

Call(c, f, args, kwargs, adv) ==
    /\ pc[c] = "idle"
    /\ wrapState[f] = "wrapper"
    /\ LET n == FirstFrame(f, args, kwargs, domains, adv)
       IN  /\ pc' = [pc EXCEPT ![c] = n.pc]
           /\ call' = [call EXCEPT ![c] = [n.frame EXCEPT !.earlier = Resolved(c)]]
           /\ domains' = n.store
    /\ UNCHANGED wrapState

Retry(c, adv) ==
    /\ pc[c] = "retry"
    /\ LET n == SecondFrame(call[c], domains, adv)
       IN  /\ pc' = [pc EXCEPT ![c] = n.pc]
           /\ call' = [call EXCEPT ![c] = n.frame]
           /\ domains' = n.store
    /\ UNCHANGED wrapState

\* the caller has taken the outcome
Return(c) ==
    /\ pc[c] = "done"
    /\ pc' = [pc EXCEPT ![c] = "idle"]
    /\ call' = [call EXCEPT ![c] = NoCall]
    /\ UNCHANGED <<domains, wrapState>>

----------------------------------------------------------------------------
(* LibvirtDriver.systems *)

\* variant: each name listed once
DomainNamesUnique(handles) ==
    LET firsts == {i \in 1..Len(handles) :
                      \A j \in 1..(i - 1) : handles[j].name # handles[i].name}
    IN  [n \in 1..Cardinality(firsts) |->
            handles[CHOOSE i \in firsts :
                       Cardinality({j \in firsts : j <= i}) = n].name]

\* [domain.name() for domain in conn.listAllDomains()]
DomainNames(handles) == [i \in 1..Len(handles) |-> handles[i].name]

\* the outcome of opening the connection and listing the domains
Enumeration(fail) ==
    IF fail = "none" THEN Ret("list") ELSE Exc("libvirtError", fail)

\* variant: a failed enumeration is answered with an empty list
SystemsFrameEmptyOnFailure(store, fail) ==
    [NoCall EXCEPT !.f = "systems",
                   !.pre = store,
                   !.invs = << <<>> >>,
                   !.outs = <<Enumeration(fail)>>,
                   !.result = Ret("list"),
                   !.names = IF fail = "none" THEN DomainNames(store) ELSE <<>>]

\* the property read as a whole; fail: where the enumeration fails, if it
\* does. The one enumeration and its outcome are kept in invs and outs.
SystemsFrame(store, fail) ==
    [NoCall EXCEPT !.f = "systems",
                   !.pre = store,
                   !.invs = << <<>> >>,
                   !.outs = <<Enumeration(fail)>>,
                   !.result = Enumeration(fail),
                   !.names = IF fail = "none" THEN DomainNames(store) ELSE <<>>]

Systems(c, fail) ==
    /\ pc[c] = "idle"
    /\ pc' = [pc EXCEPT ![c] = "done"]
    /\ call' = [call EXCEPT ![c] = SystemsFrame(domains, fail)]
    /\ UNCHANGED <<domains, wrapState>>

----------------------------------------------------------------------------
(* Specification: one caller at a time *)

Next ==
    \/ \E f \in Funcs : Wrap(f)
    \/ \E c \in SeqCallers, f \in Funcs :
         \E args \in ArgSeqs(f), kwargs \in KwargSets(f), adv \in AdvChoices(f) :
            Call(c, f, args, kwargs, adv)
    \/ \E c \in SeqCallers, adv \in AdvOutcomes : Retry(c, adv)
    \/ \E c \in SeqCallers : Return(c)
    \/ \E c \in SeqCallers, fail \in {"none", "open", "list"} : Systems(c, fail)

Spec == Init /\ [][Next]_vars

----------------------------------------------------------------------------
(* Specification: calls of several callers in progress at once *)

\* the accessors the concurrent callers use
ConcFuncs == {"get_power_state", "set_power_state"}

\* a well-formed positional call: self and every declared parameter
PlainArgs(f) == {s \in ArgSeqs(f) : Len(s) = Len(Params(f))}

NextConc ==
    \/ \E c \in AllCallers, f \in ConcFuncs :
         \E args \in PlainArgs(f) : Call(c, f, args, <<>>, Ret("ok"))
    \/ \E c \in AllCallers : Retry(c, Ret("ok"))
    \/ \E c \in AllCallers : Return(c)

SpecConc == Init /\ [][NextConc]_vars

----------------------------------------------------------------------------
(* Specification: one caller going through the whole catalogue *)

\* the positional arguments for the first n declared parameters
RECURSIVE ArgsUpTo(_, _)
ArgsUpTo(f, n) ==
    IF n = 0 THEN {<<>>}
    ELSE {Append(s, v) : s \in ArgsUpTo(f, n - 1), v \in ValsOf(Params(f)[n])}

\* the keyword arguments over the parameters S
KwargsOver(S) ==
    {m \in [S -> UNION {ValsOf(k) : k \in S}] : \A k \in S : m[k] \in ValsOf(k)}

\* calls the undecorated accessor accepts: self and identity by position, each
\* further parameter by position or by keyword, those with a default possibly
\* left out
CatalogueCalls(f) ==
    UNION {{<<a, k>> : a \in ArgsUpTo(f, n),
                       k \in UNION {KwargsOver({Params(f)[i] :
                                                    i \in (n + 1)..Len(Params(f))}
                                               \ S) :
                                    S \in SUBSET DOMAIN Defaults(f)}} :
           n \in 2..Len(Params(f))}

NextCat ==
    \/ \E c \in SeqCallers, f \in FullCatalogue :
         \E ak \in CatalogueCalls(f) : Call(c, f, ak[1], ak[2], Ret("ok"))
    \/ \E c \in SeqCallers : Retry(c, Ret("ok"))
    \/ \E c \in SeqCallers : Return(c)

SpecCat == Init /\ [][NextCat]_vars

----------------------------------------------------------------------------
(* Helpers of the properties *)

\* a call of a wrapped function has delivered its outcome to caller c
Finished(c) == pc[c] = "done" /\ call[c].f \in Funcs

\* the caller's arguments with the identity argument replaced by id
ArgsWithIdentity(f, args, id) ==
    [i \in DOMAIN args |->
        IF i <= Len(Params(f)) /\ Params(f)[i] = "identity" THEN id ELSE args[i]]

KwargsWithIdentity(kwargs, id) ==
    [k \in DOMAIN kwargs |-> IF k = "identity" THEN id ELSE kwargs[k]]

\* the outcome of a whole wrapped call of a catalogue accessor on a store
WrappedOutcome(f, args, kwargs, store) ==
    LET a == FirstFrame(f, args, kwargs, store, Ret("ok"))
    IN  IF a.pc = "done" THEN a.frame.result
        ELSE SecondFrame(a.frame, a.store, Ret("ok")).frame.result

\* Python's binding of a direct call func(*args, **kwargs) of the undecorated
\* function: surplus positional arguments, a parameter given twice, an
\* undeclared keyword and a missing parameter are TypeErrors
BindDirect(f, args, kwargs) ==
    IF \/ Len(args) > Len(Params(f))
       \/ \E i \in 1..Len(args) : Params(f)[i] \in DOMAIN kwargs
       \/ ~(DOMAIN kwargs \subseteq Range(Params(f)))
       \/ (DOMAIN kwargs) \cup {Params(f)[i] : i \in 1..Len(args)}
             # Range(Params(f))
    THEN [kind |-> "TypeError", binding |-> <<>>]
    ELSE [kind |-> "bound",
          binding |-> DictUpdate(kwargs, ZipDict(Params(f), args))]

----------------------------------------------------------------------------
(* Properties *)

\* C1: when the driver answered the identity A of a finished call of a
\* catalogue accessor with a redirect carrying the UUID C of an existing
\* domain, the call's outcome is the outcome of the wrapped accessor called
\* with C and the same other arguments on the same hypervisor state.
C1_AliasSameAsCanonical ==
    \A c \in AllCallers :
        (/\ Finished(c)
         /\ call[c].f \in Catalogue
         /\ Len(call[c].outs) >= 1
         /\ call[c].outs[1].kind = "AliasAccessError"
         /\ ByUUID(call[c].pre, call[c].outs[1].val) # {})
        => call[c].result =
             WrappedOutcome(call[c].f,
                            ArgsWithIdentity(call[c].f, call[c].args,
                                             call[c].outs[1].val),
                            KwargsWithIdentity(call[c].kwargs,
                                               call[c].outs[1].val),
                            call[c].pre)

C1_Witness ==
    \E c \in AllCallers :
        /\ Finished(c)
        /\ call[c].f = "get_power_state"
        /\ Len(call[c].outs) = 2
        /\ call[c].invs[1].identity \in Names
        /\ call[c].outs[1].kind = "AliasAccessError"
        /\ call[c].result.kind = "return"

\* C2: one call of a wrapped function invokes the underlying function at most
\* twice; when every invocation raised the redirect signal it is invoked
\* exactly twice and the caller gets the second invocation's outcome.
C2_AtMostOneRetry ==
    \A c \in AllCallers :
        /\ Len(call[c].invs) <= 2
        /\ Len(call[c].outs) = Len(call[c].invs)
        /\ (/\ Finished(c)
            /\ Len(call[c].outs) >= 1
            /\ \A i \in DOMAIN call[c].outs :
                  call[c].outs[i].kind = "AliasAccessError")
           => /\ Len(call[c].invs) = 2
              /\ call[c].result = call[c].outs[2]

C2_Witness ==
    \E c \in AllCallers :
        /\ Finished(c)
        /\ call[c].f = "adversary"
        /\ Len(call[c].invs) = 2
        /\ call[c].outs[1].kind = "AliasAccessError"
        /\ call[c].outs[2].kind = "AliasAccessError"

\* C3 as stated: the outcome delivered to the caller of a wrapped function is
\* never the redirect signal.
C3_SignalNeverEscapes ==
    \A c \in AllCallers :
        Finished(c) => call[c].result.kind # "AliasAccessError"

\* C3 amended: the redirect signal of the first invocation never reaches the
\* caller; the delivered outcome is a redirect signal only when the second
\* invocation raised it, and then it is that signal.
C3_FirstSignalConsumed ==
    \A c \in AllCallers :
        (Finished(c) /\ call[c].result.kind = "AliasAccessError")
        => /\ Len(call[c].outs) = 2
           /\ call[c].result = call[c].outs[2]

C3_Witness ==
    \E c \in AllCallers :
        /\ Finished(c)
        /\ Len(call[c].outs) = 2
        /\ call[c].outs[1].kind = "AliasAccessError"
        /\ call[c].result.kind = "AliasAccessError"
        /\ call[c].result.val # call[c].outs[1].val

C5_OtherFailurePropagates ==
    \A c \in AllCallers :
        (/\ Finished(c)
         /\ Len(call[c].outs) >= 1
         /\ call[c].outs[1].kind \notin {"return", "AliasAccessError"})
        => /\ Len(call[c].invs) = 1
           /\ call[c].result = call[c].outs[1]

C5_Witness ==
    \E c \in AllCallers :
        /\ Finished(c)
        /\ call[c].f = "uuid"
        /\ Len(call[c].invs) = 1
        /\ call[c].result.kind = "NotFound"
        /\ ByUUID(call[c].pre, call[c].invs[1].identity) = {}
        /\ ByName(call[c].pre, call[c].invs[1].identity) = {}

\* C6: when the first invocation completes normally, the wrapped function
\* returns its result unchanged and the underlying function is invoked once.
C6_NormalReturnUnchanged ==
    \A c \in AllCallers :
        (/\ Finished(c)
         /\ Len(call[c].outs) >= 1
         /\ call[c].outs[1].kind = "return")
        => /\ Len(call[c].invs) = 1
           /\ call[c].result = call[c].outs[1]

C6_Witness ==
    \E c \in AllCallers :
        /\ Finished(c)
        /\ call[c].f = "get_power_state"
        /\ Len(call[c].invs) = 1
        /\ call[c].result = Ret("Off")
        /\ call[c].invs[1].identity \in UUIDs

\* C7: the second invocation is bound like the first one except for
\* 'identity', which is the payload of the signal the first one raised.
C7_OnlyIdentityChanges ==
    \A c \in AllCallers :
        Len(call[c].invs) >= 2
        => /\ DOMAIN call[c].invs[2] = DOMAIN call[c].invs[1]
           /\ call[c].invs[2].identity = call[c].outs[1].val
           /\ \A k \in (DOMAIN call[c].invs[1]) \ {"identity"} :
                 call[c].invs[2][k] = call[c].invs[1][k]

C7_Witness ==
    \E c \in AllCallers :
        /\ Finished(c)
        /\ call[c].f = "set_power_state"
        /\ Len(call[c].invs) = 2
        /\ call[c].invs[1].identity # call[c].invs[2].identity
        /\ call[c].invs[2].state = "On"

\* C8: a failure of the second invocation is the outcome the caller gets, and
\* the call ends there.
C8_RetryFailurePropagates ==
    \A c \in AllCallers :
        (Len(call[c].outs) >= 2 /\ call[c].outs[2].kind # "return")
        => /\ pc[c] = "done"
           /\ Len(call[c].invs) = 2
           /\ call[c].result = call[c].outs[2]

C8_Witness ==
    \E c \in AllCallers :
        /\ Finished(c)
        /\ Len(call[c].outs) = 2
        /\ call[c].outs[2].kind = "NotFound"
        /\ call[c].result.kind = "NotFound"

\* C9: the first invocation binds every declared parameter as a direct call
\* of the undecorated function with the caller's arguments would, and a call
\* that the undecorated function would reject is rejected too.
C9_FirstInvocationAsDirect ==
    \A c \in AllCallers :
        (Finished(c) /\ HasIdentity(Params(call[c].f)))
        => LET d == BindDirect(call[c].f, call[c].args, call[c].kwargs)
           IN  IF d.kind = "TypeError"
               THEN call[c].result.kind = "TypeError"
               ELSE call[c].invs[1] = d.binding

\* C10: 'systems' returns the name of every enumerated domain, in the order
\* of the enumeration.
C10_SystemsListsEveryName ==
    \A c \in AllCallers :
        (pc[c] = "done" /\ call[c].f = "systems"
            /\ call[c].result.kind = "return")
        => /\ Len(call[c].names) = Len(call[c].pre)
           /\ \A i \in 1..Len(call[c].pre) :
                 call[c].names[i] = call[c].pre[i].name

C10_Witness ==
    \E c \in AllCallers :
        /\ pc[c] = "done"
        /\ call[c].f = "systems"
        /\ Len(call[c].names) = 2
        /\ call[c].names[1] = call[c].names[2]

\* C15: when opening the connection or listing the domains fails, 'systems'
\* delivers that failure to the caller, delivers no list, and has enumerated
\* once.
C15_EnumerationFailurePropagates ==
    \A c \in AllCallers :
        (/\ pc[c] = "done"
         /\ call[c].f = "systems"
         /\ call[c].outs[1].kind # "return")
        => /\ call[c].result = call[c].outs[1]
           /\ call[c].result.kind = "libvirtError"
           /\ call[c].names = <<>>
           /\ Len(call[c].invs) = 1

C15_Witness ==
    \E c \in AllCallers :
        /\ pc[c] = "done"
        /\ call[c].f = "systems"
        /\ Len(call[c].pre) = 2
        /\ call[c].result = Exc("libvirtError", "list")

\* C16: a call of the wrapped form of a function that declares no 'identity'
\* parameter is over as soon as it has begun, with a ValueError, without any
\* invocation of the function and with the hypervisor untouched, whatever
\* arguments were passed.
C16_NoIdentityCallRaises ==
    \A c \in AllCallers :
        (/\ pc[c] # "idle"
         /\ call[c].f \in Funcs
         /\ "identity" \notin Range(Params(call[c].f)))
        => /\ pc[c] = "done"
           /\ call[c].result = Exc("ValueError", "identity")
           /\ call[c].outs = <<>>
           /\ Len(call[c].invs) = 0
           /\ domains = call[c].pre

C16_Witness ==
    \E c \in AllCallers :
        /\ pc[c] = "done"
        /\ call[c].f = "no_identity"
        /\ Len(call[c].args) = 2
        /\ DOMAIN call[c].kwargs = {}
        /\ call[c].result.kind = "ValueError"

\* the keyed set the retry of a call is due: the one of its own first
\* invocation with 'identity' set to the payload its own first invocation
\* raised
OwnRetryKwargs(frame) ==
    [k \in DOMAIN frame.invs[1] |->
        IF k = "identity" THEN frame.outs[1].val ELSE frame.invs[1][k]]

\* C11: whatever calls were made and redirected before, the first invocation
\* of a call passes the identity its caller supplied, and an identity other
\* than that is passed only by the call's own retry, which passes the payload
\* raised by the call's own first invocation.
C11_NothingRemembered ==
    \A c \in AllCallers :
        (call[c].f \in Funcs /\ Len(call[c].args) >= 2)
        => \A i \in DOMAIN call[c].invs :
              call[c].invs[i].identity =
                 IF i = 1 THEN call[c].args[2] ELSE call[c].outs[1].val

C11_Witness ==
    \E c \in AllCallers :
        /\ Len(call[c].invs) >= 1
        /\ \E r \in call[c].earlier :
              /\ r[1] = call[c].args[2]
              /\ r[1] # r[2]
              /\ call[c].invs[1].identity = r[1]

\* C12: with calls of several callers in progress in any interleaving, the
\* retry of each call passes the payload raised by that call's own first
\* invocation and that call's own other arguments.
C12_RetryUsesOwnArguments ==
    \A c \in AllCallers :
        /\ pc[c] = "retry" => call[c].kw = OwnRetryKwargs(call[c])
        /\ Len(call[c].invs) = 2 => call[c].invs[2] = OwnRetryKwargs(call[c])

C12_Witness ==
    \E c, d \in AllCallers :
        /\ c # d
        /\ call[c].f = "set_power_state"
        /\ Len(call[c].invs) = 2
        /\ pc[d] = "retry"
        /\ call[d].earlier = {}
        /\ call[d].f = "set_power_state"
        /\ call[d].outs[1].val # call[c].outs[1].val
        /\ call[d].invs[1].state # call[c].invs[1].state

\* the parameter of the by-name accessor that stands for a parameter of the
\* base driver's accessor
ParamOfRole(r) == IF r = "versions" THEN "firmware_versions" ELSE r

\* the base driver's parameters bound to the values the by-name accessor was
\* given for them
ExpectedRoles(f, b) ==
    [r \in Range(BaseParams(f)) |-> b[ParamOfRole(r)]]

\* C13: every accessor of the catalogue is wrapped, and each invocation of it
\* that the wrapper makes calls the base driver's accessor of the same name
\* with each parameter bound to the value the invocation had for it
\* (boot_image None and write_protected True where set_boot_image was not
\* given them), and ends with the outcome of that base accessor.
C13_CatalogueDelegates ==
    /\ \A f \in FullCatalogue : wrapState[f] = "wrapper"
    /\ \A c \in AllCallers :
          call[c].f \in FullCatalogue
          => \A i \in DOMAIN call[c].invs :
                BindKw(call[c].f, call[c].invs[i]).kind = "return"
                => LET f == call[c].f
                       b == Bound(f, call[c].invs[i])
                       d == Delegation(f, b)
                       given == BaseBind(d.op, d.args)
                   IN  /\ d.op = f
                       /\ given = ExpectedRoles(f, b)
                       /\ \A k \in DOMAIN call[c].invs[i] \ {"self"} :
                             given[IF k = "firmware_versions" THEN "versions"
                                   ELSE k] = call[c].invs[i][k]
                       /\ (f = "set_boot_image"
                             /\ "boot_image" \notin DOMAIN call[c].invs[i])
                          => given.boot_image = "None"
                       /\ (f = "set_boot_image"
                             /\ "write_protected" \notin DOMAIN call[c].invs[i])
                          => given.write_protected = "True"
                       /\ call[c].outs[i] =
                            BaseDriver(f, ExpectedRoles(f, b), call[c].pre).out

C13_Witness ==
    \E c \in AllCallers :
        /\ pc[c] = "done"
        /\ call[c].f = "set_boot_image"
        /\ Len(call[c].invs) = 2
        /\ DOMAIN call[c].invs[2] = {"self", "identity", "device", "write_protected"}
        /\ call[c].invs[1].identity \in Names
        /\ call[c].result = Ret("None")

\* C14: a finished set_bios call whose identity the driver redirected to the
\* UUID of an existing domain has been served by its second invocation, and
\* has left that domain with the supplied BIOS attributes set to the supplied
\* values, its other BIOS attributes and everything else of it as they were,
\* and every other domain as it was.
C14_SetBiosByAlias ==
    \A c \in AllCallers :
        (/\ pc[c] = "done"
         /\ call[c].f = "set_bios"
         /\ Len(call[c].outs) >= 1
         /\ call[c].outs[1].kind = "AliasAccessError"
         /\ ByUUID(call[c].pre, call[c].outs[1].val) # {})
        => LET i == First(ByUUID(call[c].pre, call[c].outs[1].val))
               attrs == Attrs(call[c].invs[1].attributes)
           IN  /\ Len(call[c].outs) = 2
               /\ call[c].outs[2] = Ret("None")
               /\ call[c].result = Ret("None")
               /\ Len(domains) = Len(call[c].pre)
               /\ \A k \in DOMAIN attrs : domains[i].bios[k] = attrs[k]
               /\ \A k \in (DOMAIN DefaultBios) \ DOMAIN attrs :
                     domains[i].bios[k] = call[c].pre[i].bios[k]
               /\ DOMAIN domains[i].bios = DOMAIN DefaultBios
               /\ domains[i].uuid = call[c].pre[i].uuid
               /\ domains[i].name = call[c].pre[i].name
               /\ domains[i].power = call[c].pre[i].power
               /\ \A j \in DOMAIN domains : j # i => domains[j] = call[c].pre[j]

C14_Witness ==
    \E c \in AllCallers :
        /\ pc[c] = "done"
        /\ call[c].f = "set_bios"
        /\ Len(call[c].outs) = 2
        /\ Len(call[c].pre) = 2
        /\ call[c].invs[1].identity = "web"
        /\ call[c].invs[1].attributes = "BootMode=Uefi"
        /\ \E i \in DOMAIN domains :
              /\ call[c].pre[i].name = "web"
              /\ call[c].pre[i].bios =
                    [BootMode |-> "Legacy", ProcTurbo |-> "Enabled"]
              /\ domains[i].bios =
                    [BootMode |-> "Uefi", ProcTurbo |-> "Enabled"]

====
